---- MODULE Spec2Model ----
(***************************************************************************)
(* Model of second-stage/programs/eval-weights/dp-data.h: the reader of    *)
(* discriminative parsing data files (parse_type, sentence_type,           *)
(* corpus_type).                                                           *)
(*                                                                         *)
(* A stream is a sequence of items.  A "num" item is a numeric token       *)
(* together with the white space after it; a "line" item is bracketed tree *)
(* text up to and including its newline; a "junk" item is a line of        *)
(* non-numeric, non-bracketed text; a "rest" item is what a short fgets    *)
(* left of a longer line.  Trees live in a heap and records hold pointers  *)
(* into it (NULL = 0), so that ownership can be checked.                   *)
(***************************************************************************)
EXTENDS Integers, Sequences, FiniteSets, TLC

VARIABLES input, downcase_flag, ignore_trees, entry, pc, fp, nsentences, i,
          sentences, sentence, visited, status, retval, pipe, heap, objs

vars == <<input, downcase_flag, ignore_trees, entry, pc, fp, nsentences, i,
          sentences, sentence, visited, status, retval, pipe, heap, objs>>

(***************************************************************************)
(* Bounds of the model.                                                    *)
(***************************************************************************)
MaxSent == 2      \* sentence records in a well-formed stream
MaxParses == 2    \* candidate parses of one sentence
MaxEdge == 1      \* bracket edges of one tree
MaxLines == 4     \* tree lines (gold and candidate) in a well-formed stream
MaxName == 4      \* characters of a filename

(***************************************************************************)
(* Program constants.                                                      *)
(***************************************************************************)
BufSize == 4000   \* char buffer[4000]
DiagChars == 1000 \* characters echoed after a failed sentence header
NULL == 0

(***************************************************************************)
(* Lengths of the texts of the input family, in characters.                *)
(***************************************************************************)
NumLen == 2                       \* a numeric token and its white space
ShortLen == 20                    \* an ordinary tree line with its newline
LongLens == {BufSize - 1, BufSize}  \* a line that just fits, one that does not

(***************************************************************************)
(* F-scores are exact fractions [n, d] in lowest terms.  The conversion of *)
(* the double quotient to float is monotone and maps equal quotients to    *)
(* equal floats, so that order and equality of the fractions are those of  *)
(* the stored floats.                                                      *)
(***************************************************************************)
RECURSIVE Gcd(_, _)
Gcd(a, b) == IF b = 0 THEN a ELSE Gcd(b, a % b)

Frac(n, d) == IF n = 0 THEN [n |-> 0, d |-> 1]
              ELSE [n |-> n \div Gcd(n, d), d |-> d \div Gcd(n, d)]

FZero == [n |-> 0, d |-> 1]

FGreater(a, b) == a.n * b.d > b.n * a.d

(***************************************************************************)
(* The heap of trees.  txt[p] is the content of the tree last allocated at *)
(* p, live the set of trees not yet deleted, fault is set by a delete of a *)
(* tree that is not live.  new takes the first place that is free.         *)
(***************************************************************************)
EmptyHeap == [txt |-> <<>>, live |-> {}, fault |-> FALSE]

FreePlace(h) == CHOOSE p \in 1 .. Len(h.txt) + 1 :
                  p \notin h.live /\ \A q \in 1 .. p - 1 : q \in h.live

NewAt(h, v, p) == [h |-> [h EXCEPT !.txt = IF p > Len(h.txt) THEN Append(@, v)
                                           ELSE [@ EXCEPT ![p] = v],
                                   !.live = @ \cup {p}],
                   p |-> p]

New(h, v) == NewAt(h, v, FreePlace(h))

FreedTree == [e |-> -2, whole |-> FALSE, dc |-> FALSE]

Delete(h, p) == IF p = NULL THEN h
                ELSE IF p \in h.live
                THEN [h EXCEPT !.live = @ \ {p}, !.txt[p] = FreedTree]
                ELSE [h EXCEPT !.fault = TRUE]

(***************************************************************************)
(* tree.h: the tree parser, the deep copy and the bracket scorer.          *)
(***************************************************************************)
\* readtree(buffer, downcase_flag): NULL when the text is no bracketing
ReadTree(h, text, dc) ==
  IF text.bad THEN [h |-> h, p |-> NULL]
  ELSE New(h, [e |-> text.e, whole |-> text.whole, dc |-> dc])

\* tree::copy_tree(): a new tree with the same content
CopyTree(h, p) == New(h, h.txt[p])

\* precrec_type::edges(gold).nedges()
GoldNEdges(h, gold) == h.txt[gold].e

\* precrec_type pr(gold_edges, parse): ntest and ncommon; an absent parse
\* has no edges
PrecRec(h, gold, parse) ==
  LET g == 1 .. h.txt[gold].e
      t == IF parse = NULL THEN {} ELSE 1 .. h.txt[parse].e
  IN [ntest |-> Cardinality(t), ncommon |-> Cardinality(g \cap t),
      ngold |-> Cardinality(g)]

\* precrec_type::f_score()
PrFScore(pr) == IF pr.ntest + pr.ngold = 0 THEN FZero
                ELSE Frac(2 * pr.ncommon, pr.ntest + pr.ngold)

(***************************************************************************)
(* The stream and the stdio calls made on it.                              *)
(***************************************************************************)
Item(k, v, e, bad, len) == [k |-> k, v |-> v, e |-> e, bad |-> bad, len |-> len]

NumItem(v) == Item("num", v, 0, FALSE, NumLen)
LineItem(e, bad, len) == Item("line", 0, e, bad, len)
JunkItem == Item("junk", 0, 0, TRUE, ShortLen)
NumJunkItem(v) == Item("numx", v, 0, TRUE, NumLen + 1)
RestItem(len) == Item("rest", 0, 0, TRUE, len)

BadText == [e |-> 0, bad |-> TRUE, whole |-> TRUE]

\* what a conversion leaves of a token that starts with a number ("2x"):
\* the characters behind the digits, a token that is no number
AfterDigits(it) == Item("junk", 0, 0, TRUE, it.len - (NumLen - 1))

\* fscanf(fp, " %u ", &x): the number of conversions, the value, the stream.
\* The conversion takes the longest prefix of the token that is a number and
\* leaves the rest in the stream.
\* The counts of the input family are far below 2^32, the width of size_type.
ScanUint(s) ==
  IF s = <<>> THEN [nread |-> -1, v |-> 0, fp |-> s]
  ELSE IF Head(s).k = "num"
       THEN [nread |-> 1, v |-> Head(s).v, fp |-> Tail(s)]
       ELSE IF Head(s).k = "numx"
       THEN [nread |-> 1, v |-> Head(s).v, fp |-> <<AfterDigits(Head(s))>> \o Tail(s)]
       ELSE [nread |-> 0, v |-> 0, fp |-> s]

\* fscanf(fp, " %lf ", &x)
ScanFloat(s) ==
  IF s = <<>> THEN [nread |-> -1, v |-> 0, fp |-> s]
  ELSE IF Head(s).k = "num"
       THEN [nread |-> 1, v |-> Head(s).v, fp |-> Tail(s)]
       ELSE IF Head(s).k = "numx"
       THEN [nread |-> 1, v |-> Head(s).v, fp |-> <<AfterDigits(Head(s))>> \o Tail(s)]
       ELSE [nread |-> 0, v |-> 0, fp |-> s]

\* while ((c = fgetc(fp)) != EOF && c != '\n') ;
RECURSIVE SkipLine(_)
SkipLine(s) == IF s = <<>> THEN <<>>
               ELSE IF Head(s).k = "num" THEN SkipLine(Tail(s))
               ELSE Tail(s)

\* the items of the first line of s: numeric tokens, then the item that
\* ends the line (or the end of the stream)
RECURSIVE LineItems(_)
LineItems(s) == IF s = <<>> THEN 0
                ELSE IF Head(s).k = "num" THEN 1 + LineItems(Tail(s))
                ELSE 1

RECURSIVE Chars(_, _)
Chars(s, n) == IF n = 0 THEN 0 ELSE Head(s).len + Chars(Tail(s), n - 1)

\* fgets(buffer, size, fp): at most size - 1 characters of the first line.
\* ret = FALSE is a NULL return; text is what the buffer then holds.
Fgets(s, size) ==
  IF s = <<>> THEN [ret |-> FALSE, text |-> BadText, fp |-> s]
  ELSE LET n == LineItems(s)
           c == Chars(s, n)
           hd == Head(s)
           fits == c <= size - 1
           text == IF hd.k = "line" THEN [e |-> hd.e, bad |-> hd.bad, whole |-> fits]
                   ELSE BadText
       IN [ret |-> TRUE, text |-> text,
           fp |-> IF fits THEN SubSeq(s, n + 1, Len(s))
                  ELSE <<RestItem(c - (size - 1))>> \o SubSeq(s, n + 1, Len(s))]

\* for (k = 0; k < 1000; ++k) { chr = getc(fp); ... break at EOF }
RECURSIVE Getc(_, _)
Getc(s, k) == IF s = <<>> \/ k = 0 THEN s
              ELSE IF Head(s).len <= k THEN Getc(Tail(s), k - Head(s).len)
              ELSE <<RestItem(Head(s).len - k)>> \o Tail(s)

(***************************************************************************)
(* parse_type                                                              *)
(***************************************************************************)
\* parse_type()
parse_type_default ==
  [logprob |-> 0, nedges |-> 0, ncorrect |-> 0, f_score |-> FZero, parse |-> NULL]

\* ~parse_type()
parse_type_destroy(h, p) == Delete(h, p.parse)

\* a copy constructor that copies the pointer and not the tree
parse_type_copy_shallow(h, dp) == [h |-> h, p |-> dp]

\* parse_type(const parse_type& dp)
parse_type_copy(h, dp) ==
  IF dp.parse # NULL
  THEN LET a == CopyTree(h, dp.parse)
       IN [h |-> a.h, p |-> [dp EXCEPT !.parse = a.p]]
  ELSE [h |-> h, p |-> [dp EXCEPT !.parse = NULL]]

\* parse_type::operator=(const parse_type& dp), this # &dp.  dp.parse is
\* dereferenced unchecked: with dp.parse = NULL the call has no defined
\* behaviour, and ub names what the build makes of it ("crash", or "null":
\* copy_tree() of no tree yields no tree).
parse_type_assign(h, p, dp, ub) ==
  LET h1 == Delete(h, p.parse)
      q == [dp EXCEPT !.parse = NULL]
  IN IF dp.parse = NULL
     THEN [h |-> h1, p |-> q, crash |-> ub = "crash"]
     ELSE LET a == CopyTree(h1, dp.parse)
          IN [h |-> a.h, p |-> [dp EXCEPT !.parse = a.p], crash |-> FALSE]

\* parse_type::read after the log probability was read: the tree
ParseReadTree(h, p, s, dc, ig) ==
  IF ig THEN [h |-> h, p |-> p, fp |-> SkipLine(s), ok |-> TRUE]
  ELSE LET Got(g) ==
             IF ~g.ret THEN [h |-> h, p |-> p, fp |-> g.fp, ok |-> FALSE]
             ELSE LET Tree(t) == [h |-> t.h, p |-> [p EXCEPT !.parse = t.p],
                                  fp |-> g.fp, ok |-> TRUE]
                  IN Tree(ReadTree(h, g.text, dc))
       IN Got(Fgets(s, BufSize))

\* parse_type::read(fp, downcase_flag, ignore_trees)
parse_type_read(h, p, s, dc, ig) ==
  LET Scanned(h1, p1, sc) ==
        IF sc.nread # 1 THEN [h |-> h1, p |-> p1, fp |-> sc.fp, ok |-> FALSE]
        ELSE ParseReadTree(h1, [p1 EXCEPT !.logprob = sc.v], sc.fp, dc, ig)
  IN Scanned(Delete(h, p.parse), [p EXCEPT !.parse = NULL], ScanFloat(s))

(***************************************************************************)
(* parses_type: std::vector<parse_type>                                    *)
(***************************************************************************)
\* destroys the elements k .. Len(ps)
RECURSIVE DestroyParses(_, _, _)
DestroyParses(h, ps, k) ==
  IF k > Len(ps) THEN h
  ELSE DestroyParses(parse_type_destroy(h, ps[k]), ps, k + 1)

\* copy-constructs src[k .. Len(src)] behind acc
RECURSIVE CopyParses(_, _, _, _)
CopyParses(h, src, k, acc) ==
  IF k > Len(src) THEN [h |-> h, ps |-> acc]
  ELSE LET c == parse_type_copy(h, src[k])
       IN CopyParses(c.h, src, k + 1, Append(acc, c.p))

\* dst[j] = src[j] for j in k .. n
RECURSIVE AssignParses(_, _, _, _, _, _)
AssignParses(h, dst, src, k, n, ub) ==
  IF k > n THEN [h |-> h, ps |-> dst, crash |-> FALSE]
  ELSE LET a == parse_type_assign(h, dst[k], src[k], ub)
       IN IF a.crash THEN [h |-> a.h, ps |-> dst, crash |-> TRUE]
          ELSE AssignParses(a.h, [dst EXCEPT ![k] = a.p], src, k + 1, n, ub)

\* a resize that appends records and never removes one
parses_resize_grow_only(h, ps, n) ==
  IF n <= Len(ps) THEN [h |-> h, ps |-> ps]
  ELSE [h |-> h, ps |-> ps \o [j \in 1 .. n - Len(ps) |-> parse_type_default]]

\* parses.resize(n): the tail is destroyed, or default records are appended
parses_resize(h, ps, n) ==
  IF n <= Len(ps)
  THEN [h |-> DestroyParses(h, ps, n + 1), ps |-> SubSeq(ps, 1, n)]
  ELSE [h |-> h, ps |-> ps \o [j \in 1 .. n - Len(ps) |-> parse_type_default]]

\* parses = src.  With more elements than the capacity holds, new storage is
\* copy-constructed and the old elements are destroyed (grow, possible only
\* when src is longer); otherwise the common prefix is assigned and the
\* rest destroyed or copy-constructed.
parses_assign(h, dst, src, ub, grow) ==
  IF grow /\ Len(src) > Len(dst)
  THEN LET c == CopyParses(h, src, 1, <<>>)
       IN [h |-> DestroyParses(c.h, dst, 1), ps |-> c.ps, crash |-> FALSE]
  ELSE IF Len(dst) >= Len(src)
  THEN LET a == AssignParses(h, dst, src, 1, Len(src), ub)
       IN IF a.crash THEN a
          ELSE [h |-> DestroyParses(a.h, a.ps, Len(src) + 1),
                ps |-> SubSeq(a.ps, 1, Len(src)), crash |-> FALSE]
  ELSE LET a == AssignParses(h, dst, src, 1, Len(dst), ub)
       IN IF a.crash THEN a
          ELSE LET c == CopyParses(a.h, src, Len(dst) + 1, a.ps)
               IN [h |-> c.h, ps |-> c.ps, crash |-> FALSE]

(***************************************************************************)
(* sentence_type                                                           *)
(***************************************************************************)
\* sentence_type()
sentence_type_default ==
  [gold |-> NULL, gold_nedges |-> 0, max_fscore |-> FZero, parses |-> <<>>]

\* ~sentence_type(): the body, then the member parses
sentence_type_destroy(h, s) == DestroyParses(Delete(h, s.gold), s.parses, 1)

\* sentence_type(const sentence_type& s)
sentence_type_copy(h, s) ==
  LET c == CopyParses(h, s.parses, 1, <<>>)
      g == IF s.gold = NULL THEN [h |-> c.h, p |-> NULL] ELSE CopyTree(c.h, s.gold)
  IN [h |-> g.h,
      s |-> [gold |-> g.p, gold_nedges |-> s.gold_nedges,
             max_fscore |-> s.max_fscore, parses |-> c.ps]]

\* sentence_type::operator=(const sentence_type& s), this # &s
sentence_type_assign(h, t, s, ub, grow) ==
  LET a == parses_assign(h, t.parses, s.parses, ub, grow)
      t1 == [t EXCEPT !.gold_nedges = s.gold_nedges,
                      !.max_fscore = s.max_fscore, !.parses = a.ps]
  IN IF a.crash THEN [h |-> a.h, s |-> t1, crash |-> TRUE]
     ELSE LET h1 == Delete(a.h, t.gold)
              g == IF s.gold # NULL THEN CopyTree(h1, s.gold)
                   ELSE [h |-> h1, p |-> NULL]
          IN [h |-> g.h, s |-> [t1 EXCEPT !.gold = g.p], crash |-> FALSE]

\* a loop body that counts the edges and does not store the f-score
ScoreParse_no_f_score(h, sen, k, p) ==
  LET Counted(pr) ==
        [sen EXCEPT !.parses[k + 1] = [p EXCEPT !.nedges = pr.ntest,
                                                !.ncorrect = pr.ncommon]]
  IN Counted(PrecRec(h, sen.gold, p.parse))

\* the body of the loop of sentence_type::read after a successful
\* parses[k].read: the scores of candidate k and the running maximum
ScoreParse(h, sen, k, p) ==
  LET Scored(pr, f_score) ==
        [sen EXCEPT !.parses[k + 1] = [p EXCEPT !.nedges = pr.ntest,
                                                !.ncorrect = pr.ncommon,
                                                !.f_score = f_score],
                    !.max_fscore = IF FGreater(f_score, @) THEN f_score ELSE @]
      Counted(pr) == Scored(pr, PrFScore(pr))
  IN Counted(PrecRec(h, sen.gold, p.parse))

\* the loop of sentence_type::read over the candidates k .. n - 1.  ns names
\* what the bracket scorer makes of an absent parse tree: "crash", or
\* "empty" (a parse without edges).
RECURSIVE ReadParses(_, _, _, _, _, _, _, _)
ReadParses(h, sen, s, k, n, dc, ig, ns) ==
  IF k >= n THEN [h |-> h, s |-> sen, fp |-> s, st |-> "ok"]
  ELSE LET Got(r) ==
             IF ~r.ok
             THEN [h |-> r.h, s |-> [sen EXCEPT !.parses[k + 1] = r.p],
                   fp |-> r.fp, st |-> "fail"]
             ELSE IF r.p.parse = NULL /\ ns = "crash"
             THEN [h |-> r.h, s |-> [sen EXCEPT !.parses[k + 1] = r.p],
                   fp |-> r.fp, st |-> "crash"]
             ELSE ReadParses(r.h, ScoreParse(r.h, sen, k, r.p), r.fp, k + 1, n,
                             dc, ig, ns)
       IN Got(parse_type_read(h, sen.parses[k + 1], s, dc, ig))

\* sentence_type::read after the gold tree was read: the assert, the gold
\* edges, the resize and the loop
SentenceReadParses(h, sen, s, n, dc, ig, ns) ==
  IF sen.gold = NULL   \* assert(gold != NULL)
  THEN [h |-> h, s |-> sen, fp |-> s, st |-> "assert_gold"]
  ELSE LET Resized(rs) ==
             ReadParses(rs.h, [sen EXCEPT !.gold_nedges = GoldNEdges(h, sen.gold),
                                          !.parses = rs.ps],
                        s, 0, n, dc, ig, ns)
       IN Resized(parses_resize(h, sen.parses, n))

\* sentence_type::read after the candidate count n was read: the gold line
SentenceReadGold(h, sen, s, n, dc, ig, ns) ==
  IF ig THEN SentenceReadParses(h, sen, SkipLine(s), n, dc, ig, ns)
  ELSE LET Got(g) ==
             IF ~g.ret THEN [h |-> h, s |-> sen, fp |-> g.fp, st |-> "fail"]
             ELSE LET Tree(t) ==
                        SentenceReadParses(t.h, [sen EXCEPT !.gold = t.p], g.fp, n,
                                           dc, ig, ns)
                  IN Tree(ReadTree(h, g.text, dc))
       IN Got(Fgets(s, BufSize))

\* a read that takes the gold line before the candidate count
sentence_type_read_gold_first(h, sen, s, dc, ig, ns) ==
  LET Counted(h1, s1, sc) ==
        IF sc.nread # 1
        THEN [h |-> h1, s |-> s1, fp |-> Getc(sc.fp, DiagChars), st |-> "fail"]
        ELSE SentenceReadParses(h1, s1, sc.fp, sc.v, dc, ig, ns)
      Tree(s1, t, rest) == Counted(t.h, [s1 EXCEPT !.gold = t.p], ScanUint(rest))
      Got(h1, s1, g) ==
        IF ~g.ret THEN [h |-> h1, s |-> s1, fp |-> g.fp, st |-> "fail"]
        ELSE Tree(s1, ReadTree(h1, g.text, dc), g.fp)
      Freed(h1, s1) ==
        IF ig THEN Counted(h1, s1, ScanUint(SkipLine(s)))
        ELSE Got(h1, s1, Fgets(s, BufSize))
  IN Freed(Delete(h, sen.gold), [sen EXCEPT !.gold = NULL])

\* sentence_type::read(fp, downcase_flag, ignore_trees): st is "ok" (true),
\* "fail" (false), "assert_gold" (assert(gold != NULL) failed) or "crash"
\* (of the scorer)
sentence_type_read(h, sen, s, dc, ig, ns) ==
  LET Scanned(h1, s1, sc) ==
        IF sc.nread # 1
        THEN [h |-> h1, s |-> s1, fp |-> Getc(sc.fp, DiagChars), st |-> "fail"]
        ELSE SentenceReadGold(h1, s1, sc.fp, sc.v, dc, ig, ns)
  IN Scanned(Delete(h, sen.gold), [sen EXCEPT !.gold = NULL], ScanUint(s))

(***************************************************************************)
(* sentences_type: std::vector<sentence_type>                              *)
(***************************************************************************)
RECURSIVE DestroySentences(_, _, _)
DestroySentences(h, ss, k) ==
  IF k > Len(ss) THEN h
  ELSE DestroySentences(sentence_type_destroy(h, ss[k]), ss, k + 1)

\* sentences.resize(n)
sentences_resize(h, ss, n) ==
  IF n <= Len(ss)
  THEN [h |-> DestroySentences(h, ss, n + 1), ss |-> SubSeq(ss, 1, n)]
  ELSE [h |-> h, ss |-> ss \o [j \in 1 .. n - Len(ss) |-> sentence_type_default]]

(***************************************************************************)
(* What a record holds, with its trees read through the heap: the value a  *)
(* caller or a visitor sees.                                               *)
(***************************************************************************)
AbsentTree == [e |-> -1, whole |-> FALSE, dc |-> FALSE]
Deref(h, p) == IF p = NULL THEN AbsentTree
               ELSE IF p \in h.live THEN h.txt[p] ELSE FreedTree

ParseView(h, p) == [logprob |-> p.logprob, nedges |-> p.nedges,
                    ncorrect |-> p.ncorrect, f_score |-> p.f_score,
                    parse |-> Deref(h, p.parse)]

SentenceView(h, s) == [gold |-> Deref(h, s.gold), gold_nedges |-> s.gold_nedges,
                       max_fscore |-> s.max_fscore,
                       parses |-> [j \in 1 .. Len(s.parses) |-> ParseView(h, s.parses[j])]]

CorpusView(h, ss) == [j \in 1 .. Len(ss) |-> SentenceView(h, ss[j])]

(***************************************************************************)
(* corpus_type: the steps of read and of map_sentences as operators        *)
(***************************************************************************)
NullScores == {"crash", "empty"}

\* corpus_type::read up to the loop: st is "loop", or "false" (return false)
corpus_read_head(h, ss, s) ==
  LET Scanned(sc) ==
        IF sc.nread # 1
        THEN [h |-> h, ss |-> ss, fp |-> sc.fp, n |-> 0, st |-> "false"]
        ELSE LET Resized(r) == [h |-> r.h, ss |-> r.ss, fp |-> sc.fp, n |-> sc.v,
                                st |-> "loop"]
             IN Resized(sentences_resize(h, ss, sc.v))
  IN Scanned(ScanUint(s))

\* one turn of the loop of corpus_type::read, k < n: st is "loop" (go on),
\* "false" (return false), or "assert_gold" or "crash" (the process ends)
corpus_read_turn(h, ss, s, k, dc, ig, ns) ==
  LET Got(r) == [h |-> r.h, ss |-> [ss EXCEPT ![k + 1] = r.s], fp |-> r.fp,
                 st |-> CASE r.st = "ok" -> "loop"
                          [] r.st = "fail" -> "false"
                          [] OTHER -> r.st]
  IN Got(sentence_type_read(h, ss[k + 1], s, dc, ig, ns))

\* the loop of corpus_type::read from turn k on
RECURSIVE corpus_read_loop(_, _, _, _, _, _, _, _)
corpus_read_loop(h, ss, s, k, n, dc, ig, ns) ==
  IF k >= n THEN [h |-> h, ss |-> ss, fp |-> s, st |-> "true"]
  ELSE LET Got(t) ==
             IF t.st = "loop" THEN corpus_read_loop(t.h, t.ss, t.fp, k + 1, n, dc, ig, ns)
             ELSE t
       IN Got(corpus_read_turn(h, ss, s, k, dc, ig, ns))

\* corpus_type::read(fp, downcase_flag, ignore_trees) as a whole
corpus_type_read(h, ss, s, dc, ig, ns) ==
  LET Got(hd) ==
        IF hd.st = "false" THEN [h |-> hd.h, ss |-> hd.ss, fp |-> hd.fp, st |-> "false"]
        ELSE corpus_read_loop(hd.h, hd.ss, hd.fp, 0, hd.n, dc, ig, ns)
  IN Got(corpus_read_head(h, ss, s))

(***************************************************************************)
(* The family of input streams: a well-formed stream (the count M, then M  *)
(* sentence records, each a candidate count N and the gold line followed   *)
(* by N candidate lines of a log probability and a tree), or such a stream *)
(* with one defect.                                                        *)
(***************************************************************************)
SeqsUpTo(S, n) == UNION {[1 .. k -> S] : k \in 0 .. n}

EdgeCounts == 0 .. MaxEdge

SentenceTexts == [gold : EdgeCounts, cands : SeqsUpTo(EdgeCounts, MaxParses)]

RECURSIVE RenderCands(_, _, _)
RenderCands(cs, si, j) ==
  IF j > Len(cs) THEN <<>>
  ELSE <<NumItem(10 * si + j), LineItem(cs[j], FALSE, ShortLen)>>
       \o RenderCands(cs, si, j + 1)

RECURSIVE RenderSentences(_, _)
RenderSentences(b, si) ==
  IF si > Len(b) THEN <<>>
  ELSE <<NumItem(Len(b[si].cands)), LineItem(b[si].gold, FALSE, ShortLen)>>
       \o RenderCands(b[si].cands, si, 1) \o RenderSentences(b, si + 1)

Render(b) == <<NumItem(Len(b))>> \o RenderSentences(b, 1)

\* the sequences of m sentence texts with at most l tree lines in all
RECURSIVE Bases(_, _)
Bases(m, l) ==
  IF m = 0 THEN {<<>>}
  ELSE UNION {{<<t>> \o r : r \in Bases(m - 1, l - 1 - Len(t.cands))}
              : t \in {u \in SentenceTexts : m + Len(u.cands) <= l}}

WellFormed == {Render(b) : b \in UNION {Bases(m, MaxLines) : m \in 0 .. MaxSent}}

\* the stream ends after p items
Cuts(w) == {SubSeq(w, 1, p) : p \in 0 .. Len(w) - 1}

\* a numeric token is replaced by text that is no number
Junks(w) == {[w EXCEPT ![p] = JunkItem] : p \in {q \in 1 .. Len(w) : w[q].k = "num"}}

\* a tree line is no bracketing
Bads(w) == {[w EXCEPT ![p].bad = TRUE] : p \in {q \in 1 .. Len(w) : w[q].k = "line"}}

\* a tree line is long
Longs(w) == UNION {{[w EXCEPT ![p].len = l] : l \in LongLens}
                   : p \in {q \in 1 .. Len(w) : w[q].k = "line"}}

\* w, and w with one defect
Defective(w) == {w} \cup Cuts(w) \cup Junks(w) \cup Bads(w) \cup Longs(w)

(***************************************************************************)
(* The calls of a client: one entry point of corpus_type is called on the  *)
(* input, from a stream ("read", "ctor_fp", "map_fp") or from a filename   *)
(* ("ctor_file", "map_file").  pc is the place in the call: "idle" before  *)
(* it, "popen", "header", "loop", "visit", "returned" (the inner read or   *)
(* map_sentences has returned to the entry point), "left" after it,        *)
(* "assert_gold" and "assert_status" after the assert of that name failed, *)
(* "crash" after a crash, "exited" after exit().                           *)
(***************************************************************************)
ReadEntries == {"read", "ctor_fp", "ctor_file"}
MapEntries == {"map_fp", "map_file"}
FileEntries == {"ctor_file", "map_file"}
Entries == ReadEntries \cup MapEntries
Aborts == {"assert_gold", "assert_status", "crash"}

Init ==
  /\ \E w \in WellFormed : input \in Defective(w)
  /\ downcase_flag \in BOOLEAN
  /\ ignore_trees \in BOOLEAN
  /\ entry = "none"
  /\ pc = "idle"
  /\ fp = <<>>
  /\ nsentences = 0
  /\ i = 0
  /\ sentences = <<>>
  /\ sentence = sentence_type_default
  /\ visited = <<>>
  /\ status = FALSE
  /\ retval = 0
  /\ pipe = [opened |-> 0, closed |-> 0]
  /\ heap = EmptyHeap
  /\ objs = <<>>

\* the client calls an entry point; the corpus and the visitor start empty
Call ==
  /\ pc = "idle"
  /\ \E e \in Entries :
       /\ entry' = e
       /\ pc' = IF e \in FileEntries THEN "popen" ELSE "header"
       /\ fp' = IF e \in FileEntries THEN <<>> ELSE input
  /\ UNCHANGED <<input, downcase_flag, ignore_trees, nsentences, i, sentences,
                 sentence, visited, status, retval, pipe, heap, objs>>

\* popen_decompress(filename): the pipe to the decompressor, or exit
popen_decompress ==
  /\ pc = "popen"
  /\ \/ /\ fp' = input
        /\ pipe' = [pipe EXCEPT !.opened = @ + 1]
        /\ pc' = "header"
     \/ /\ pc' = "exited"      \* fp == NULL: exit(EXIT_FAILURE)
        /\ UNCHANGED <<fp, pipe>>
  /\ UNCHANGED <<input, downcase_flag, ignore_trees, entry, nsentences, i, sentences,
                 sentence, visited, status, retval, heap, objs>>

\* where a call of corpus_type::read goes when read returns
AfterRead == IF entry = "read" THEN "left" ELSE "returned"

\* corpus_type::read: the count and the resize
corpus_read_header ==
  /\ pc = "header" /\ entry \in ReadEntries
  /\ \E r \in {corpus_read_head(heap, sentences, fp)} :
        /\ heap' = r.h
        /\ sentences' = r.ss
        /\ fp' = r.fp
        /\ nsentences' = r.n
        /\ i' = 0
        /\ IF r.st = "false" THEN status' = FALSE /\ pc' = AfterRead
           ELSE IF r.n = 0 THEN status' = TRUE /\ pc' = AfterRead
           ELSE status' = status /\ pc' = "loop"
  /\ UNCHANGED <<input, downcase_flag, ignore_trees, entry, sentence, visited,
                 retval, pipe, objs>>

\* corpus_type::read: one turn of the loop
corpus_read_sentence ==
  /\ pc = "loop" /\ entry \in ReadEntries /\ i < nsentences
  /\ \E ns \in NullScores :
       \E r \in {corpus_read_turn(heap, sentences, fp, i, downcase_flag,
                                  ignore_trees, ns)} :
          /\ heap' = r.h
          /\ sentences' = r.ss
          /\ fp' = r.fp
          /\ CASE r.st \in Aborts -> pc' = r.st /\ UNCHANGED <<i, status>>
               [] r.st = "false" -> pc' = AfterRead /\ status' = FALSE /\ i' = i
               [] OTHER -> /\ i' = i + 1
                           /\ IF i + 1 = nsentences
                              THEN status' = TRUE /\ pc' = AfterRead
                              ELSE status' = status /\ pc' = "loop"
  /\ UNCHANGED <<input, downcase_flag, ignore_trees, entry, nsentences, sentence,
                 visited, retval, pipe, objs>>

\* corpus_type(FILE*): assert(status == true)
corpus_ctor_fp ==
  /\ pc = "returned" /\ entry = "ctor_fp"
  /\ pc' = IF status THEN "left" ELSE "assert_status"
  /\ UNCHANGED <<input, downcase_flag, ignore_trees, entry, fp, nsentences, i,
                 sentences, sentence, visited, status, retval, pipe, heap, objs>>

\* corpus_type(const char filename[]): assert(successful_read); pclose(fp)
corpus_ctor_file ==
  /\ pc = "returned" /\ entry = "ctor_file"
  /\ IF status
     THEN pc' = "left" /\ pipe' = [pipe EXCEPT !.closed = @ + 1]
     ELSE pc' = "assert_status" /\ pipe' = pipe
  /\ UNCHANGED <<input, downcase_flag, ignore_trees, entry, fp, nsentences, i,
                 sentences, sentence, visited, status, retval, heap, objs>>

\* where a call of map_sentences(FILE*) goes when it returns
AfterMap == IF entry = "map_fp" THEN "left" ELSE "returned"

\* map_sentences(FILE*): the count, and the local sentence
map_sentences_header ==
  /\ pc = "header" /\ entry \in MapEntries
  /\ \E sc \in {ScanUint(fp)} :
        /\ fp' = sc.fp
        /\ i' = 0
        /\ IF sc.nread # 1
           THEN nsentences' = nsentences /\ retval' = 0 /\ pc' = AfterMap
           ELSE /\ nsentences' = sc.v
                /\ IF sc.v = 0 THEN retval' = sc.v /\ pc' = AfterMap
                   ELSE retval' = retval /\ pc' = "loop"
  /\ sentence' = sentence_type_default
  /\ UNCHANGED <<input, downcase_flag, ignore_trees, entry, sentences, visited,
                 status, pipe, heap, objs>>

\* a loop that calls proc(sentence) whatever sentence.read returned
map_sentences_read_unchecked ==
  /\ pc = "loop" /\ entry \in MapEntries /\ i < nsentences
  /\ \E ns \in NullScores :
       \E r \in {sentence_type_read(heap, sentence, fp, downcase_flag,
                                    ignore_trees, ns)} :
          /\ fp' = r.fp
          /\ heap' = r.h
          /\ sentence' = r.s
          /\ pc' = IF r.st \in Aborts THEN r.st ELSE "visit"
  /\ UNCHANGED <<input, downcase_flag, ignore_trees, entry, nsentences, i, sentences,
                 visited, status, retval, pipe, objs>>

\* map_sentences(FILE*): sentence.read(...) of one turn of the loop; the
\* local sentence is destroyed on return
map_sentences_read ==
  /\ pc = "loop" /\ entry \in MapEntries /\ i < nsentences
  /\ \E ns \in NullScores :
       \E r \in {sentence_type_read(heap, sentence, fp, downcase_flag,
                                    ignore_trees, ns)} :
          /\ fp' = r.fp
          /\ CASE r.st \in Aborts ->
                    /\ pc' = r.st /\ heap' = r.h /\ sentence' = r.s
                    /\ retval' = retval
               [] r.st = "fail" ->
                    /\ pc' = AfterMap /\ retval' = 0
                    /\ heap' = sentence_type_destroy(r.h, r.s)
                    /\ sentence' = sentence_type_default
               [] OTHER ->
                    /\ pc' = "visit" /\ heap' = r.h /\ sentence' = r.s
                    /\ retval' = retval
  /\ UNCHANGED <<input, downcase_flag, ignore_trees, entry, nsentences, i, sentences,
                 visited, status, pipe, objs>>

\* map_sentences(FILE*): proc(sentence), with a visitor that keeps what it
\* is shown; after the last turn return nsentences
map_sentences_visit ==
  /\ pc = "visit" /\ entry \in MapEntries
  /\ visited' = Append(visited, SentenceView(heap, sentence))
  /\ i' = i + 1
  /\ IF i + 1 = nsentences
     THEN /\ retval' = nsentences /\ pc' = AfterMap
          /\ heap' = sentence_type_destroy(heap, sentence)
          /\ sentence' = sentence_type_default
     ELSE /\ retval' = retval /\ pc' = "loop"
          /\ UNCHANGED <<heap, sentence>>
  /\ UNCHANGED <<input, downcase_flag, ignore_trees, entry, fp, nsentences, sentences,
                 status, pipe, objs>>

\* map_sentences(const char filename[]): pclose(fp); return nsentences
map_sentences_file ==
  /\ pc = "returned" /\ entry = "map_file"
  /\ pipe' = [pipe EXCEPT !.closed = @ + 1]
  /\ pc' = "left"
  /\ UNCHANGED <<input, downcase_flag, ignore_trees, entry, fp, nsentences, i,
                 sentences, sentence, visited, status, retval, heap, objs>>

Next ==
  \/ Call
  \/ popen_decompress
  \/ corpus_read_header
  \/ corpus_read_sentence
  \/ corpus_ctor_fp
  \/ corpus_ctor_file
  \/ map_sentences_header
  \/ map_sentences_read
  \/ map_sentences_visit
  \/ map_sentences_file

Spec == Init /\ [][Next]_vars

(***************************************************************************)
(* Properties of the calls.                                                *)
(***************************************************************************)
\* the largest f-score among the candidates ps[k .. Len(ps)], 0 without any
RECURSIVE MaxFScore(_, _)
MaxFScore(ps, k) ==
  IF k > Len(ps) THEN FZero
  ELSE LET Rest(m) == IF FGreater(ps[k].f_score, m) THEN ps[k].f_score ELSE m
       IN Rest(MaxFScore(ps, k + 1))

ReadReturned == entry = "read" /\ pc = "left"
MapReturned == entry \in MapEntries /\ pc \in {"left", "returned"}

\* C1: when corpus_type::read fails after k sentence records were read, the
\* corpus holds exactly those k records.
C1_FailureKeepsPrefix ==
  (ReadReturned /\ ~status) => Len(sentences) = i

\* C2: after every successful sentence_type::read, into a fresh record or
\* into a reused one, max_fscore is the largest f-score of the candidates
\* just read, and 0 when there is none.
C2_MaxFScoreOfCandidates ==
  /\ (entry \in MapEntries /\ pc = "visit")
       => sentence.max_fscore = MaxFScore(sentence.parses, 1)
  /\ (entry \in ReadEntries /\ pc \in {"loop", "left", "returned"})
       => \A j \in 1 .. i : sentences[j].max_fscore = MaxFScore(sentences[j].parses, 1)

\* C3: the sentence records map_sentences shows its visitor are, one by
\* one, the records corpus_type::read stores for the same stream.
C3_VisitorSeesWhatReadStores ==
  MapReturned =>
    \A ns \in NullScores :
      \A r \in {corpus_type_read(EmptyHeap, <<>>, input, downcase_flag,
                                 ignore_trees, ns)} :
        r.st \in {"true", "false"} => visited = CorpusView(r.h, r.ss)

\* C4: with ignore_trees, reading well-formed sentences fails no assertion
\* and returns success with the scores of every candidate left at zero.
C4_IgnoreTreesReads ==
  (ignore_trees /\ entry = "read" /\ input \in WellFormed) =>
    /\ pc \notin Aborts
    /\ pc = "left" =>
         /\ status
         /\ \A j \in 1 .. Len(sentences) : \A k \in 1 .. Len(sentences[j].parses) :
              /\ sentences[j].parses[k].nedges = 0
              /\ sentences[j].parses[k].ncorrect = 0
              /\ sentences[j].parses[k].f_score = FZero
              /\ sentences[j].parses[k].parse = NULL

\* C5: map_sentences returns the number of sentence records the visitor was
\* called on, after a whole stream and after a failure in mid-stream.
C5_ReturnsCountProcessed ==
  MapReturned => retval = Len(visited)

\* C7: a filename entry point closes the decompression process it opened
\* exactly once before it is left, whether the read succeeded or failed.
C7_PipeClosedOnce ==
  (entry \in FileEntries /\ pipe.opened = 1 /\ pc \in {"left", "assert_status"})
    => pipe.closed = 1

\* C8: when the tree parser yields no tree for a gold or a candidate line,
\* the read returns failure: no assert fails, and no record that was read
\* successfully lacks a tree.
C8_ParserFailurePropagates ==
  ~ignore_trees =>
    /\ pc # "assert_gold"
    /\ (entry \in MapEntries /\ pc = "visit") =>
         /\ sentence.gold # NULL
         /\ \A k \in 1 .. Len(sentence.parses) : sentence.parses[k].parse # NULL
    /\ (entry \in ReadEntries /\ pc \in {"loop", "left", "returned"}) =>
         \A j \in 1 .. i :
           /\ sentences[j].gold # NULL
           /\ \A k \in 1 .. Len(sentences[j].parses) : sentences[j].parses[k].parse # NULL

\* C9: no tree is built from the truncated prefix of a line: every tree was
\* parsed from a whole line.
C9_NoTreeFromTruncatedLine ==
  \A p \in heap.live : heap.txt[p].whole

\* the record read stores for the sentence text t
StoresText(h, sen, t) ==
  /\ sen.gold # NULL /\ Deref(h, sen.gold).e = t.gold
  /\ Len(sen.parses) = Len(t.cands)
  /\ \A k \in 1 .. Len(t.cands) :
       sen.parses[k].parse # NULL /\ Deref(h, sen.parses[k].parse).e = t.cands[k]

\* C10: for a count M followed by M well-formed sentence records,
\* corpus_type::read returns success with M sentences, the i-th of them
\* the i-th of the stream.
C10_WellFormedReadSucceeds ==
  (entry = "read" /\ input \in WellFormed) =>
    /\ pc \notin Aborts
    /\ pc = "left" =>
         /\ status
         /\ Len(sentences) = input[1].v
         /\ \E m \in 0 .. MaxSent : \E b \in Bases(m, MaxLines) :
              /\ Render(b) = input
              /\ \A j \in 1 .. m : StoresText(heap, sentences[j], b[j])

\* C12: when sentence_type::read fails, on a candidate or before, the
\* record it was reading into is not left partially filled: it shows no
\* candidates, read or unread.
C12_NoPartialSentence ==
  (ReadReturned /\ ~status /\ i < Len(sentences))
    => sentences[i + 1].parses = <<>>

\* C13: no input stream makes an entry point of corpus_type abort: no
\* assert fails, in sentence_type::read or in a constructor.
C13_NoAssertFails == pc \notin {"assert_gold", "assert_status"}

(***************************************************************************)
(* The entry points on streams in either order of the gold line and the    *)
(* candidate count: a sentence record as sentence_type::read takes it      *)
(* (Render), and with the gold line before the count (RenderGoldFirst).    *)
(***************************************************************************)
RECURSIVE RenderSentencesGoldFirst(_, _)
RenderSentencesGoldFirst(b, si) ==
  IF si > Len(b) THEN <<>>
  ELSE <<LineItem(b[si].gold, FALSE, ShortLen), NumItem(Len(b[si].cands))>>
       \o RenderCands(b[si].cands, si, 1) \o RenderSentencesGoldFirst(b, si + 1)

RenderGoldFirst(b) == <<NumItem(Len(b))>> \o RenderSentencesGoldFirst(b, 1)

GoldFirst == {RenderGoldFirst(b) : b \in UNION {Bases(m, MaxLines) : m \in 0 .. MaxSent}}

InitOrder ==
  /\ \/ \E w \in WellFormed : input \in {w} \cup Bads(w) \cup Longs(w)
     \/ input \in GoldFirst
  /\ downcase_flag = FALSE
  /\ ignore_trees \in BOOLEAN
  /\ entry = "none"
  /\ pc = "idle"
  /\ fp = <<>>
  /\ nsentences = 0
  /\ i = 0
  /\ sentences = <<>>
  /\ sentence = sentence_type_default
  /\ visited = <<>>
  /\ status = FALSE
  /\ retval = 0
  /\ pipe = [opened |-> 0, closed |-> 0]
  /\ heap = EmptyHeap
  /\ objs = <<>>

SpecOrder == InitOrder /\ [][Next]_vars

\* the place in the input of the first item of sentence record j
RECURSIVE Start(_, _)
Start(ss, j) == IF j = 1 THEN 2
                ELSE Start(ss, j - 1) + 2 + 2 * Len(ss[j - 1].parses)

\* the tree at p is the tree of the input item at place q
TreeOfItem(p, q) ==
  /\ q <= Len(input)
  /\ input[q].k = "line"
  /\ IF input[q].bad THEN p = NULL
     ELSE p # NULL /\ Deref(heap, p).e = input[q].e

\* the number n is the numeric token at place q
NumberOfItem(n, q) == q <= Len(input) /\ input[q].k = "num" /\ input[q].v = n

\* the candidates of sen are the items from place q on, in stream order
CandsOfItems(sen, q) ==
  \A k \in 1 .. Len(sen.parses) :
    /\ NumberOfItem(sen.parses[k].logprob, q + 2 * (k - 1))
    /\ TreeOfItem(sen.parses[k].parse, q + 2 * (k - 1) + 1)

FScoresOfCounts(sen) ==
  \A k \in 1 .. Len(sen.parses) :
    sen.parses[k].f_score =
      IF sen.parses[k].nedges + sen.gold_nedges = 0 THEN FZero
      ELSE Frac(2 * sen.parses[k].ncorrect, sen.parses[k].nedges + sen.gold_nedges)

\* C15: the f-score stored for every candidate of a sentence record that
\* was read is 0 when nedges + gold_nedges = 0 and otherwise
\* 2 * ncorrect / (nedges + gold_nedges), of the stored nedges and ncorrect
\* of the candidate and the gold_nedges of the sentence.
C15_FScoreOfStoredCounts ==
  /\ (entry \in MapEntries /\ pc = "visit") => FScoresOfCounts(sentence)
  /\ (entry \in ReadEntries /\ pc \in {"loop", "left", "returned"})
       => \A j \in 1 .. i : FScoresOfCounts(sentences[j])

\* corpus_type::read has stored a candidate without edges of a sentence
\* without gold edges, and a candidate with an f-score that is not 0
C15_ScoredBothWays ==
  /\ ReadReturned /\ status
  /\ \E j \in 1 .. Len(sentences) : \E k \in 1 .. Len(sentences[j].parses) :
       sentences[j].parses[k].nedges + sentences[j].gold_nedges = 0
  /\ \E j \in 1 .. Len(sentences) : \E k \in 1 .. Len(sentences[j].parses) :
       /\ sentences[j].parses[k].ncorrect > 0
       /\ sentences[j].parses[k].f_score # FZero

\* sentence.read(fp, ...) in the current state returns true
SentenceReadSucceeds ==
  \E ns \in NullScores :
    sentence_type_read(heap, sentence, fp, downcase_flag, ignore_trees, ns).st = "ok"

\* one step of a call of map_sentences keeps the order of reads and visits
VisitsFollowReads ==
  entry \in MapEntries =>
    /\ (pc # "visit" /\ pc' = "visit")
         => pc = "loop" /\ SentenceReadSucceeds /\ Len(visited) = i
    /\ visited' # visited
         => /\ pc = "visit"
            /\ visited' = Append(visited, SentenceView(heap, sentence))
            /\ fp' = fp /\ i' = i + 1
    /\ (pc = "loop" /\ fp' # fp) => Len(visited) = i
    /\ (pc = "loop" /\ ~SentenceReadSucceeds) => pc' \notin {"loop", "visit"}
    /\ pc \in {"left", "returned"} \cup Aborts
         => fp' = fp /\ visited' = visited

\* C17: in map_sentences the visitor is called on sentence i only after
\* sentence i was read successfully and before sentence i + 1 is read, in
\* stream order; after the first failed read nothing more is read and the
\* visitor is not called again.
C17_VisitAfterSuccessfulRead == [][VisitsFollowReads]_vars

\* map_sentences has returned after a failed read that followed a visit
C17_FailureAfterVisit ==
  /\ MapReturned
  /\ Len(visited) >= 1
  /\ Len(visited) < nsentences

\* the number of items of the input that were read, whole or in part
Consumed ==
  Len(input) - Len(fp) + (IF fp # <<>> /\ Head(fp).k = "rest" THEN 1 ELSE 0)

\* the candidates of sen are the last items that were read, behind their
\* count and the gold line
LastRecordRead(sen) ==
  /\ Consumed - 2 * Len(sen.parses) - 1 >= 2
  /\ NumberOfItem(Len(sen.parses), Consumed - 2 * Len(sen.parses) - 1)
  /\ CandsOfItems(sen, Consumed - 2 * Len(sen.parses) + 1)

\* C18: after every successful sentence_type::read with candidate count N,
\* also into a record that held more or fewer candidates before, nparses()
\* is N and parses[k] is the k-th candidate of that sentence in the stream:
\* no candidate of an earlier sentence is left.
C18_ParsesOfThisSentence ==
  (entry \in MapEntries /\ pc = "visit") => LastRecordRead(sentence)

\* map_sentences has read a sentence into the record that held more
\* candidates before
C18_ReusedAfterMore ==
  /\ entry \in MapEntries /\ pc = "visit"
  /\ i >= 1
  /\ Len(visited[i].parses) > Len(sentence.parses)

(***************************************************************************)
(* The entry points on streams that differ in their first token: a count,  *)
(* a token that is no number ("x"), a token that starts with a number      *)
(* ("2x"), or none at all.                                                 *)
(***************************************************************************)
FirstTokens(w) ==
  {w, <<>>, [w EXCEPT ![1] = JunkItem], [w EXCEPT ![1] = NumJunkItem(w[1].v)]}

InitHeader ==
  /\ \E w \in WellFormed : input \in FirstTokens(w)
  /\ downcase_flag = FALSE
  /\ ignore_trees \in BOOLEAN
  /\ entry = "none"
  /\ pc = "idle"
  /\ fp = <<>>
  /\ nsentences = 0
  /\ i = 0
  /\ sentences = <<>>
  /\ sentence = sentence_type_default
  /\ visited = <<>>
  /\ status = FALSE
  /\ retval = 0
  /\ pipe = [opened |-> 0, closed |-> 0]
  /\ heap = EmptyHeap
  /\ objs = <<>>

SpecHeader == InitHeader /\ [][Next]_vars

\* C14: when the first token of the stream is not an unsigned number, or
\* the stream is empty, corpus_type::read returns failure, reads no
\* sentence record and leaves sentences as it was: empty.
C14_NoCountNoSentences ==
  (ReadReturned /\ (input = <<>> \/ input[1].k # "num")) =>
    /\ ~status
    /\ sentences = <<>>
    /\ heap = EmptyHeap

(***************************************************************************)
(* A client that owns records: two sentence_type objects and one           *)
(* parse_type object, each constructed, read into, copied, assigned and    *)
(* destroyed in any order.  objs.sent[a] and objs.par are the objects:     *)
(* live says whether the object exists, v is its value, and copied says of *)
(* a sentence_type object that its value was last written by the copy      *)
(* constructor.  Every read is from a stream of its own.  A                *)
(* failed assert or a crash ends the process, and its objects with it.     *)
(***************************************************************************)
SentSlots == {1, 2}

DeadSentence == [live |-> FALSE, copied |-> FALSE, v |-> sentence_type_default]
DeadParse == [live |-> FALSE, v |-> parse_type_default]

\* the streams a record is read from: one sentence record, or the text of
\* one candidate, well formed or with a defect
OwnBases == {b \in Bases(1, 2) :
               b[1].gold = MaxEdge /\ \A k \in 1 .. Len(b[1].cands) : b[1].cands[k] = MaxEdge}
OwnDefective(w) == {w} \cup Cuts(w) \cup Bads(w)
SentenceStreams == UNION {{SubSeq(x, 2, Len(x)) : x \in OwnDefective(Render(b))}
                          : b \in OwnBases}
ParseStreams == UNION {{SubSeq(x, 4, Len(x)) : x \in {Render(b)} \cup Bads(Render(b))}
                       : b \in {c \in OwnBases : Len(c[1].cands) = 1}}

NoObjects == [sent |-> [a \in SentSlots |-> DeadSentence], par |-> DeadParse]

InitOwn ==
  /\ input = <<>>
  /\ downcase_flag = FALSE
  /\ ignore_trees \in BOOLEAN
  /\ entry = "none"
  /\ pc = "idle"
  /\ fp = <<>>
  /\ nsentences = 0
  /\ i = 0
  /\ sentences = <<>>
  /\ sentence = sentence_type_default
  /\ visited = <<>>
  /\ status = FALSE
  /\ retval = 0
  /\ pipe = [opened |-> 0, closed |-> 0]
  /\ heap = EmptyHeap
  /\ objs = NoObjects

OwnRest == <<input, downcase_flag, ignore_trees, entry, fp, nsentences, i, sentences,
             sentence, visited, status, retval, pipe>>


\* sentence_type s;
own_sentence_new ==
  /\ pc = "idle"
  /\ \E a \in SentSlots :
       /\ ~objs.sent[a].live
       /\ objs' = [objs EXCEPT !.sent[a] = [live |-> TRUE, copied |-> FALSE, v |-> sentence_type_default]]
  /\ UNCHANGED <<pc, heap>>
  /\ UNCHANGED OwnRest

\* s.read(fp, downcase_flag, ignore_trees)
own_sentence_read ==
  /\ pc = "idle"
  /\ \E a \in SentSlots, x \in SentenceStreams, ns \in NullScores :
       /\ objs.sent[a].live
       /\ \E r \in {sentence_type_read(heap, objs.sent[a].v, x, downcase_flag,
                                       ignore_trees, ns)} :
            /\ IF r.st \in Aborts
               THEN pc' = r.st /\ heap' = EmptyHeap /\ objs' = NoObjects
               ELSE /\ pc' = pc
                    /\ heap' = r.h
                    /\ objs' = [objs EXCEPT !.sent[a] = [live |-> TRUE, copied |-> FALSE, v |-> r.s]]
  /\ UNCHANGED OwnRest

\* sentence_type t(s);
own_sentence_copy ==
  /\ pc = "idle"
  /\ \E a \in SentSlots, b \in SentSlots :
       /\ objs.sent[a].live /\ ~objs.sent[b].live
       /\ \E r \in {sentence_type_copy(heap, objs.sent[a].v)} :
            /\ heap' = r.h
            /\ objs' = [objs EXCEPT !.sent[b] = [live |-> TRUE, copied |-> TRUE, v |-> r.s]]
  /\ UNCHANGED pc
  /\ UNCHANGED OwnRest

\* t = s;  (t = t changes nothing)
own_sentence_assign ==
  /\ pc = "idle"
  /\ \E a \in SentSlots, b \in SentSlots, ub \in {"crash", "null"}, grow \in BOOLEAN :
       /\ objs.sent[a].live /\ objs.sent[b].live
       /\ IF a = b THEN UNCHANGED <<heap, objs, pc>>
          ELSE \E r \in {sentence_type_assign(heap, objs.sent[b].v, objs.sent[a].v,
                                              ub, grow)} :
                 /\ IF r.crash
                    THEN pc' = "crash" /\ heap' = EmptyHeap /\ objs' = NoObjects
                    ELSE /\ pc' = pc
                         /\ heap' = r.h
                         /\ objs' = [objs EXCEPT !.sent[b] = [live |-> TRUE, copied |-> FALSE, v |-> r.s]]
  /\ UNCHANGED OwnRest

\* s goes out of scope
own_sentence_destroy ==
  /\ pc = "idle"
  /\ \E a \in SentSlots :
       /\ objs.sent[a].live
       /\ heap' = sentence_type_destroy(heap, objs.sent[a].v)
       /\ objs' = [objs EXCEPT !.sent[a] = DeadSentence]
  /\ UNCHANGED pc
  /\ UNCHANGED OwnRest

\* the parse records a client can copy from: those of the live sentences
ParseSources == UNION {{objs.sent[a].v.parses[k] : k \in 1 .. Len(objs.sent[a].v.parses)}
                       : a \in {b \in SentSlots : objs.sent[b].live}}

\* parse_type p;
own_parse_new ==
  /\ pc = "idle"
  /\ ~objs.par.live
  /\ objs' = [objs EXCEPT !.par = [live |-> TRUE, v |-> parse_type_default]]
  /\ UNCHANGED <<pc, heap>>
  /\ UNCHANGED OwnRest

\* p.read(fp, downcase_flag, ignore_trees)
own_parse_read ==
  /\ pc = "idle"
  /\ objs.par.live
  /\ \E x \in ParseStreams :
       \E r \in {parse_type_read(heap, objs.par.v, x, downcase_flag, ignore_trees)} :
         /\ heap' = r.h
         /\ objs' = [objs EXCEPT !.par = [live |-> TRUE, v |-> r.p]]
  /\ UNCHANGED pc
  /\ UNCHANGED OwnRest

\* parse_type p(s.parses[k]);
own_parse_copy ==
  /\ pc = "idle"
  /\ ~objs.par.live
  /\ \E dp \in ParseSources :
       \E r \in {parse_type_copy(heap, dp)} :
         /\ heap' = r.h
         /\ objs' = [objs EXCEPT !.par = [live |-> TRUE, v |-> r.p]]
  /\ UNCHANGED pc
  /\ UNCHANGED OwnRest

\* p = s.parses[k];
own_parse_assign ==
  /\ pc = "idle"
  /\ objs.par.live
  /\ \E dp \in ParseSources, ub \in {"crash", "null"} :
       \E r \in {parse_type_assign(heap, objs.par.v, dp, ub)} :
         /\ IF r.crash
            THEN pc' = "crash" /\ heap' = EmptyHeap /\ objs' = NoObjects
            ELSE /\ pc' = pc
                 /\ heap' = r.h
                 /\ objs' = [objs EXCEPT !.par = [live |-> TRUE, v |-> r.p]]
  /\ UNCHANGED OwnRest

\* p goes out of scope
own_parse_destroy ==
  /\ pc = "idle"
  /\ objs.par.live
  /\ heap' = parse_type_destroy(heap, objs.par.v)
  /\ objs' = [objs EXCEPT !.par = DeadParse]
  /\ UNCHANGED pc
  /\ UNCHANGED OwnRest

NextOwn ==
  \/ own_sentence_new
  \/ own_sentence_read
  \/ own_sentence_copy
  \/ own_sentence_assign
  \/ own_sentence_destroy
  \/ own_parse_new
  \/ own_parse_read
  \/ own_parse_copy
  \/ own_parse_assign
  \/ own_parse_destroy

SpecOwn == InitOwn /\ [][NextOwn]_vars

\* the trees the live objects hold, as <<holder, pointer>> pairs
HeldBy(a) ==
  IF ~objs.sent[a].live THEN {}
  ELSE {<<<<"gold", a>>, objs.sent[a].v.gold>>}
       \cup {<<<<"parse", a, k>>, objs.sent[a].v.parses[k].parse>>
              : k \in 1 .. Len(objs.sent[a].v.parses)}
Held ==
  {x \in UNION {HeldBy(a) : a \in SentSlots}
          \cup (IF objs.par.live THEN {<<<<"par">>, objs.par.v.parse>>} ELSE {})
     : x[2] # NULL}

\* C6: after any sequence of read, copy-construct, assign and destroy
\* operations on sentence and parse records no two live records hold the
\* same tree, every tree a live record holds is allocated and is the tree
\* it was made as, and no tree was freed twice.
C6_NoSharedTree ==
  /\ ~heap.fault
  /\ \A x \in Held : x[2] \in heap.live /\ Deref(heap, x[2]).e = MaxEdge
  /\ \A x \in Held, y \in Held : x[2] = y[2] => x[1] = y[1]

\* a copy-constructed sentence record holds its gold tree and a candidate
\* tree after the record it was copied from was destroyed and its trees
\* were freed
C6_CopyOutlivesOriginal ==
  /\ pc = "idle"
  /\ ~objs.sent[1].live
  /\ objs.sent[2].live /\ objs.sent[2].copied
  /\ objs.sent[2].v.gold \in heap.live
  /\ Len(objs.sent[2].v.parses) = 1
  /\ objs.sent[2].v.parses[1].parse \in heap.live
  /\ \E q \in 1 .. Len(heap.txt) : q \notin heap.live

\* C19: assigning a parse record to another gives the target the state
\* that copy-constructing from it gives: the same scalar fields and a copy
\* of the tree, or no tree when the source has none.
C19_AssignAsCopy ==
  (pc = "idle" /\ objs.par.live) =>
    \A dp \in ParseSources, ub \in {"crash", "null"} :
      \A a \in {parse_type_assign(heap, objs.par.v, dp, ub)} :
        \A c \in {parse_type_copy(heap, dp)} :
          /\ ~a.crash
          /\ ParseView(a.h, a.p) = ParseView(c.h, c.p)

(***************************************************************************)
(* popen_decompress(filename): the choice of the command.  A filename is   *)
(* a sequence of characters; objs holds the filename and the command that  *)
(* is handed to popen.                                                     *)
(***************************************************************************)
NameChars == {".", "b", "B", "z", "Z", "2", "g", "G", "x"}

\* tolower(c), as strcasecmp applies it
ToLower(c) == CASE c = "B" -> "b" [] c = "Z" -> "z" [] c = "G" -> "g" [] OTHER -> c

\* strrchr(filename, c): the place of the last c in filename, NULL if none
Strrchr(filename, c) ==
  LET at == {q \in 1 .. Len(filename) : filename[q] = c}
  IN IF at = {} THEN NULL ELSE CHOOSE q \in at : \A r \in at : r <= q

\* strcasecmp(a, b): 0 when a and b are equal but for case, not 0 otherwise
Strcasecmp(a, b) ==
  IF Len(a) = Len(b) /\ \A q \in 1 .. Len(a) : ToLower(a[q]) = ToLower(b[q])
  THEN 0 ELSE 1

\* the command popen_decompress builds.  Without a '.' in filename
\* filesuffix is NULL and strcasecmp(filesuffix, ...) has no defined
\* behaviour: ub names what the build makes of it ("crash", or "differs":
\* the comparison reports a difference).
decompress_command(filename, ub) ==
  LET filesuffix == Strrchr(filename, ".")
      Compared(suffix) ==
        IF Strcasecmp(suffix, <<".", "b", "z", "2">>) # 0
        THEN (IF Strcasecmp(suffix, <<".", "g", "z">>) # 0 THEN "cat " ELSE "gunzip -c ")
        ELSE "bzcat "
  IN IF filesuffix = NULL
     THEN [crash |-> ub = "crash", prog |-> "cat ", arg |-> filename]
     ELSE [crash |-> FALSE,
           prog |-> Compared(SubSeq(filename, filesuffix, Len(filename))),
           arg |-> filename]

NoCommand == [crash |-> FALSE, prog |-> "", arg |-> <<>>]

InitOpen ==
  /\ input = <<>>
  /\ downcase_flag = FALSE
  /\ ignore_trees = FALSE
  /\ entry = "none"
  /\ pc = "idle"
  /\ fp = <<>>
  /\ nsentences = 0
  /\ i = 0
  /\ sentences = <<>>
  /\ sentence = sentence_type_default
  /\ visited = <<>>
  /\ status = FALSE
  /\ retval = 0
  /\ pipe = [opened |-> 0, closed |-> 0]
  /\ heap = EmptyHeap
  /\ \E name \in SeqsUpTo(NameChars, MaxName) :
       objs = [filename |-> name, command |-> NoCommand]

\* popen_decompress(filename) up to the call of popen
open_command ==
  /\ pc = "idle"
  /\ \E ub \in {"crash", "differs"} :
       \E c \in {decompress_command(objs.filename, ub)} :
         /\ objs' = [objs EXCEPT !.command = c]
         /\ pc' = IF c.crash THEN "crash" ELSE "popen"
  /\ UNCHANGED heap
  /\ UNCHANGED OwnRest

NextOpen == open_command

SpecOpen == InitOpen /\ [][NextOpen]_vars

\* a ends with b, but for case
EndsWith(a, b) ==
  /\ Len(a) >= Len(b)
  /\ \A q \in 1 .. Len(b) : ToLower(a[Len(a) - Len(b) + q]) = ToLower(b[q])

\* C16: for every filename the command is chosen by the suffix alone, case
\* ignored: bzcat for a name ending in .bz2, gunzip -c for a name ending in
\* .gz, cat for every other name, also one without a suffix.
C16_CommandBySuffix ==
  pc # "idle" =>
    /\ pc = "popen"
    /\ objs.command.arg = objs.filename
    /\ objs.command.prog =
         IF EndsWith(objs.filename, <<".", "b", "z", "2">>) THEN "bzcat "
         ELSE IF EndsWith(objs.filename, <<".", "g", "z">>) THEN "gunzip -c "
         ELSE "cat "

====
